---- MODULE Spec2Model ----
(***************************************************************************)
(* The checklist runner of ChecklistsScreen (src/app/analytics.tsx,        *)
(* lines 423-684): step completion tracking and the per-step countdown     *)
(* timer, with the one-second interval that the timer effect arms and      *)
(* clears; and the requests and forms of the other screens.                *)
(*                                                                         *)
(* Spec drives the handlers of the checklist runner through the controls   *)
(* the screen renders (a handler runs only when its control is on screen,  *)
(* with the arguments the control passes), with the fetches of the         *)
(* checklist list in between.  RunnerSpec calls the handlers directly, in  *)
(* any state and with any argument of the bounded input sets, so the       *)
(* runner goes through every state under RunnerSpec that it goes through   *)
(* under Spec.  LateSpec is RunnerSpec with startTimer called with seconds *)
(* > 0 only and with interval callbacks that may also run once their       *)
(* interval has been cleared.  FairSpec is the runner with an interval     *)
(* that calls back every second while the countdown is left alone.  The    *)
(* other screens (src/app/inventory.tsx, src/unnamed/part_000,             *)
(* src/app/index.tsx) are modelled by their requests and forms: CrudSpec   *)
(* has every request of the three screens succeed or fail, FormSpec opens, *)
(* fills in, saves and closes the form of a record, RaceSpec has the list  *)
(* fetches of focus, refresh and category change answered in any order,    *)
(* and FetchSpec has the list fetches of all four screens answered in the  *)
(* end.                                                                    *)
(*                                                                         *)
(* A step of a specification is one event of the JavaScript event loop,    *)
(* here a press handler or an interval callback, together with the render  *)
(* its state updates cause and the run of the timer effect for that render *)
(* (cleanup of the previous run, then the effect body).  The updater given *)
(* to setTimerValue runs once per callback, on the current timerValue.     *)
(***************************************************************************)
EXTENDS Integers, Sequences, FiniteSets, TLC

\* ------------------------------------------------------------------ bounds
\* Longest timer duration of the catalog and largest seconds argument.
MaxSeconds == 3
\* Completion alerts after which no further timer is started.
MaxAlerts == 2
\* Requests of a CRUD screen in flight at once.
MaxInflight == 2

\* --------------------------------------------------------------- encodings
\* null / undefined of a `number | null` or `number?` value.
Null == -1

Min(a, b) == IF a < b THEN a ELSE b

\* An optional string (`safety_note?: string`): the set of at most one string.
Undefined == {}
Note(text) == {text}

\* ChecklistStep, the fields the screen reads.
Step(o, t, s, n) ==
  [order |-> o, timer_seconds |-> t, is_safety |-> s, safety_note |-> n]

\* The fetched checklists the cards are rendered from: one without steps;
\* one with an untimed step, a timed step and a zero-second timer; one with
\* two timed steps whose orders are not their positions.  The steps differ
\* in their safety flag and note.
Catalog ==
  << << >>,
     << Step(1, Null, TRUE, Note("Unplug the device")),
        Step(2, MaxSeconds, FALSE, Note("Wear gloves")),
        Step(3, 0, TRUE, Undefined) >>,
     << Step(2, 1, TRUE, Note("")),
        Step(3, 2, FALSE, Undefined) >> >>

RECURSIVE LargestOrder(_)
LargestOrder(steps) ==
  IF steps = << >> THEN 0
  ELSE LET rest == LargestOrder(Tail(steps))
       IN IF Head(steps).order > rest THEN Head(steps).order ELSE rest

\* The step orders handed to the handlers: every order of the catalog; each
\* is missing from at least one checklist.
Orders == 1..LargestOrder(Catalog[1] \o Catalog[2] \o Catalog[3])
\* The seconds handed to startTimer.
Seconds == 0..MaxSeconds
\* Interval handles.
Handles == {1, 2, 3}

\* A request: the screen sending it, the handler's purpose, the HTTP method,
\* the _id in its URL and the category of its params ("" without one).
Request(screen, op, method, id, category) ==
  [screen |-> screen, op |-> op, method |-> method, id |-> id,
   category |-> category]

\* axios.get(`${API_URL}/api/checklists`)
ChecklistsFetch == Request("checklists", "fetch", "GET", "", "")

\* The screens with create, update and delete, and the dashboard.
ListScreens == {"inventory", "logbook"}
CrudScreens == ListScreens \cup {"dashboard"}
Screens == CrudScreens \cup {"checklists"}

\* CATEGORIES, of which 'all' sends no params, and the _id of the records the
\* backend holds, with the category of each.
Categories == {"all", "adhesive", "screw", "clamp"}
Records == {"id1", "id2"}
CategoryOf(id) == IF id = "id1" THEN "adhesive" ELSE "screw"

\* What is typed into a required field; '' is the value after resetForm.
FieldValues == {"", "  ", "Glue"}
\* Variant: the text is tested as typed.
TrimNone(text) == text

\* text.trim()
Trim(text) == IF text = "  " THEN "" ELSE text

\* The fields saveItem and saveRepair require.
Fields(screen) ==
  CASE screen = "inventory" -> {"name"}
    [] screen = "logbook" -> {"deviceType", "deviceModel", "issueDescription"}
    [] OTHER -> {}

\* Alert.alert('Error', ...) of saveItem and saveRepair.
RequiredAlert(screen) ==
  [title |-> "Error",
   message |-> IF screen = "inventory" THEN "Please enter item name"
               ELSE "Please fill in all required fields"]
SaveFailedAlert(screen) ==
  [title |-> "Error",
   message |-> IF screen = "inventory" THEN "Failed to save item"
               ELSE "Failed to save repair"]

\* Alert.alert('Timer Complete', 'Step timer has finished!')
TimerCompleteAlert ==
  [title |-> "Timer Complete", message |-> "Step timer has finished!"]

VARIABLES
  selectedChecklist,  \* index into Catalog of the open checklist, or Null
  completedSteps,     \* Set<number>
  activeTimer,        \* step order owning the timer, or Null
  timerValue,         \* remaining seconds
  timerRunning,       \* boolean
  intervals,          \* handles of the intervals that are scheduled
  effectInterval,     \* `interval` of the last run of the timer effect, or Null
  alerts,             \* the alerts shown so far, oldest first
  checklists,         \* the fetched checklists: << >> or Catalog
  loading,            \* boolean
  refreshing,         \* boolean
  inflight,           \* the requests sent and not yet answered
  last,               \* history: the last handler run and the timer state before it
  ticksSince,         \* history: seconds elapsed since `last`
  toggled,            \* history: parity of the toggleStep calls per order since open
  elapsed,            \* history: interval callbacks since the active step's timer
                      \*          was started from its declared duration
  outcome,            \* history: how the request answered last ended
  screen,             \* the screen the behaviour is about
  selectedCategory,   \* inventory: the category chip that is selected
  items,              \* the _id of the records (inventory, repairs) or of the
                      \* low-stock items (dashboard) on display
  modalVisible,       \* boolean
  editing,            \* editingItem / editingRepair: {} for null, or {_id}
  form,               \* the required fields of the form
  openedBy            \* history: how the form was opened last

runner == <<selectedChecklist, completedSteps, activeTimer, timerValue, timerRunning>>
clock == <<intervals, effectInterval>>
list == <<checklists, loading, refreshing>>
calls == <<last, ticksSince, toggled, elapsed>>
history == <<calls, outcome>>
forms == <<screen, selectedCategory, items, modalVisible, editing, form, openedBy>>
vars == <<runner, clock, alerts, list, inflight, history, forms>>

\* ------------------------------------------------------------ timer effect
\* Variant: the condition tests the remaining value only.
EffectArmsPaused(running, value) == value > 0

\* The condition under which the effect schedules an interval.
EffectArms(running, value) == running /\ value > 0

\* The handle setInterval returns with `live` scheduled: one not in use.
FreshHandle(live) ==
  IF live = Handles THEN 1
  ELSE CHOOSE h \in Handles \ live : \A g \in Handles \ live : h <= g

\* Variant: the cleanup clears nothing.
ClearIntervalLeak(live, h) == live

\* clearInterval(h) on the scheduled intervals `live`.
ClearInterval(live, h) == live \ {h}

\* Variant: the effect returns no cleanup.
RunEffectNoCleanup(running, value) ==
  IF <<running, value>> = <<timerRunning, timerValue>>
  THEN UNCHANGED clock
  ELSE IF EffectArms(running, value)
       THEN /\ intervals' = intervals \cup {FreshHandle(intervals)}
            /\ effectInterval' = FreshHandle(intervals)
       ELSE /\ intervals' = intervals
            /\ effectInterval' = Null

\* Variant: the effect has no dependency list and runs after every render.
RunEffectEveryRender(running, value) ==
  IF EffectArms(running, value)
  THEN /\ intervals' = ClearInterval(intervals, effectInterval)
                        \cup {FreshHandle(intervals)}
       /\ effectInterval' = FreshHandle(intervals)
  ELSE /\ intervals' = ClearInterval(intervals, effectInterval)
       /\ effectInterval' = Null

\* Variant: a change of timerValue alone clears the interval and schedules none.
RunEffectNoRearm(running, value) ==
  IF <<running, value>> = <<timerRunning, timerValue>>
  THEN UNCHANGED clock
  ELSE IF EffectArms(running, value) /\ running # timerRunning
       THEN /\ intervals' = ClearInterval(intervals, effectInterval)
                             \cup {FreshHandle(intervals)}
            /\ effectInterval' = FreshHandle(intervals)
       ELSE /\ intervals' = ClearInterval(intervals, effectInterval)
            /\ effectInterval' = Null

\* The effect after a render with timerRunning = running, timerValue = value:
\* it runs only when a dependency changed; the previous run's cleanup clears
\* that run's interval, then a new interval is scheduled if the condition holds.
RunEffect(running, value) ==
  IF <<running, value>> = <<timerRunning, timerValue>>
  THEN UNCHANGED clock
  ELSE IF EffectArms(running, value)
       THEN /\ intervals' = ClearInterval(intervals, effectInterval)
                             \cup {FreshHandle(intervals)}
            /\ effectInterval' = FreshHandle(intervals)
       ELSE /\ intervals' = ClearInterval(intervals, effectInterval)
            /\ effectInterval' = Null

\* Variants: the completion test is off by one, either way.
TickCompletesLate(prev) == prev < 1
TickCompletesEarly(prev) == prev <= 2

\* Variant: the updater subtracts one whatever the value.
TickValueNoFloor(prev) == prev - 1

\* The updater passed to setTimerValue by the interval callback.
TickCompletes(prev) == prev <= 1
TickValue(prev) == IF TickCompletes(prev) THEN 0 ELSE prev - 1

\* ---------------------------------------------------------------- handlers
\* Variant: opening leaves timerRunning as it was.
openChecklistKeepsRunning(checklist) ==
  /\ selectedChecklist' = checklist
  /\ completedSteps' = {}
  /\ activeTimer' = Null
  /\ timerValue' = 0
  /\ UNCHANGED timerRunning
  /\ RunEffect(timerRunning, 0)
  /\ UNCHANGED <<alerts, list, inflight, forms>>

openChecklist(checklist) ==
  /\ selectedChecklist' = checklist
  /\ completedSteps' = {}
  /\ activeTimer' = Null
  /\ timerValue' = 0
  /\ timerRunning' = FALSE
  /\ RunEffect(FALSE, 0)
  /\ UNCHANGED <<alerts, list, inflight, forms>>

\* Variant: closing leaves timerRunning as it was.
closeChecklistKeepsRunning ==
  /\ selectedChecklist' = Null
  /\ completedSteps' = {}
  /\ activeTimer' = Null
  /\ timerValue' = 0
  /\ UNCHANGED timerRunning
  /\ RunEffect(timerRunning, 0)
  /\ UNCHANGED <<alerts, list, inflight, forms>>

\* Variant: closing resets the selection and the steps, not the timer.
closeChecklistKeepsTimer ==
  /\ selectedChecklist' = Null
  /\ completedSteps' = {}
  /\ activeTimer' = Null
  /\ UNCHANGED <<timerValue, timerRunning>>
  /\ RunEffect(timerRunning, timerValue)
  /\ UNCHANGED <<alerts, list, inflight, forms>>

closeChecklist ==
  /\ selectedChecklist' = Null
  /\ completedSteps' = {}
  /\ activeTimer' = Null
  /\ timerValue' = 0
  /\ timerRunning' = FALSE
  /\ RunEffect(FALSE, 0)
  /\ UNCHANGED <<alerts, list, inflight, forms>>

\* Variant: a completed step is never removed.
ToggledAddOnly(completed, stepOrder) == completed \cup {stepOrder}

\* newCompleted of toggleStep.
Toggled(completed, stepOrder) ==
  IF stepOrder \in completed
  THEN completed \ {stepOrder}
  ELSE completed \cup {stepOrder}

\* Variant: the toggle is saved to the backend.
toggleStepSaves(stepOrder) ==
  /\ completedSteps' = Toggled(completedSteps, stepOrder)
  /\ UNCHANGED <<selectedChecklist, activeTimer, timerValue, timerRunning>>
  /\ RunEffect(timerRunning, timerValue)
  /\ inflight' = inflight \cup {Request("checklists", "save", "PUT", "", "")}
  /\ UNCHANGED <<alerts, list, forms>>

toggleStep(stepOrder) ==
  /\ completedSteps' = Toggled(completedSteps, stepOrder)
  /\ UNCHANGED <<selectedChecklist, activeTimer, timerValue, timerRunning>>
  /\ RunEffect(timerRunning, timerValue)
  /\ UNCHANGED <<alerts, list, inflight, forms>>

startTimer(stepOrder, seconds) ==
  /\ activeTimer' = stepOrder
  /\ timerValue' = seconds
  /\ timerRunning' = TRUE
  /\ UNCHANGED <<selectedChecklist, completedSteps>>
  /\ RunEffect(TRUE, seconds)
  /\ UNCHANGED <<alerts, list, inflight, forms>>

stopTimer ==
  /\ timerRunning' = FALSE
  /\ UNCHANGED <<selectedChecklist, completedSteps, activeTimer, timerValue>>
  /\ RunEffect(FALSE, timerValue)
  /\ UNCHANGED <<alerts, list, inflight, forms>>

\* Variant: the completing callback leaves timerRunning as it was.
IntervalCallbackKeepsRunning ==
  LET value == TickValue(timerValue)
  IN /\ timerValue' = value
     /\ UNCHANGED timerRunning
     /\ alerts' = IF TickCompletes(timerValue)
                  THEN Append(alerts, TimerCompleteAlert)
                  ELSE alerts
     /\ UNCHANGED <<selectedChecklist, completedSteps, activeTimer>>
     /\ UNCHANGED <<list, inflight, forms>>
     /\ RunEffect(timerRunning, value)

\* Variant: the completing callback also marks the step complete.
IntervalCallbackCompletesStep ==
  LET value == TickValue(timerValue)
      running == IF TickCompletes(timerValue) THEN FALSE ELSE timerRunning
  IN /\ timerValue' = value
     /\ timerRunning' = running
     /\ alerts' = IF TickCompletes(timerValue)
                  THEN Append(alerts, TimerCompleteAlert)
                  ELSE alerts
     /\ completedSteps' = IF TickCompletes(timerValue)
                          THEN completedSteps \cup {activeTimer}
                          ELSE completedSteps
     /\ UNCHANGED <<selectedChecklist, activeTimer>>
     /\ UNCHANGED <<list, inflight, forms>>
     /\ RunEffect(running, value)

\* The callback of a scheduled interval.
IntervalCallback ==
  LET value == TickValue(timerValue)
      running == IF TickCompletes(timerValue) THEN FALSE ELSE timerRunning
  IN /\ timerValue' = value
     /\ timerRunning' = running
     /\ alerts' = IF TickCompletes(timerValue)
                  THEN Append(alerts, TimerCompleteAlert)
                  ELSE alerts
     /\ UNCHANGED <<selectedChecklist, completedSteps, activeTimer>>
     /\ UNCHANGED <<list, inflight, forms>>
     /\ RunEffect(running, value)

\* ----------------------------------------------------------------- history
TimerState == [owner |-> activeTimer, value |-> timerValue, running |-> timerRunning]

Observe(op, order, seconds) ==
  /\ last' = [op |-> op, order |-> order, seconds |-> seconds, before |-> TimerState]
  /\ ticksSince' = 0
  /\ UNCHANGED outcome

NeverToggled == [o \in Orders |-> 0]

\* No further timer is started once MaxAlerts alerts were shown.
MayStart == Len(alerts) < MaxAlerts

\* ----------------------------------------------------------------- derived
Steps == IF selectedChecklist = Null THEN << >> ELSE Catalog[selectedChecklist]
StepOrders == {Steps[i].order : i \in DOMAIN Steps}

\* Variant: a declared duration of 0 renders the section too.
HasTimerSectionDefined(step) == step.timer_seconds # Null

\* `step.timer_seconds &&`: undefined and 0 render no timer section.
HasTimerSection(step) == step.timer_seconds # Null /\ step.timer_seconds # 0

\* A string that is defined and not empty.
Truthy(optional) == optional # Undefined /\ optional # Note("")

\* Variant: the warning is shown for every step that carries a note.
SafetyWarningAnyNote(step) == Truthy(step.safety_note)

\* `step.is_safety && step.safety_note &&`: the safety warning of a step.
SafetyWarning(step) == step.is_safety /\ Truthy(step.safety_note)

\* The control the timer section of a step shows.
TimerControl(step) ==
  IF ~HasTimerSection(step) THEN "none"
  ELSE IF activeTimer # step.order THEN "start"
  ELSE IF timerRunning THEN "pause" ELSE "play"

\* Variant: the play button passes the seconds left, also when they are 0.
ResumeSecondsLeft(step) == timerValue

\* Variant: the play button passes the declared duration.
ResumeSecondsFull(step) == step.timer_seconds

\* `timerValue || step.timer_seconds!`
ResumeSeconds(step) == IF timerValue # 0 THEN timerValue ELSE step.timer_seconds

\* Variant: no banner for a checklist without steps.
CompletionBannerNonEmpty ==
  /\ selectedChecklist # Null
  /\ Len(Steps) > 0
  /\ Cardinality(completedSteps) = Len(Steps)

\* The "All steps completed!" banner.
CompletionBanner ==
  selectedChecklist # Null /\ Cardinality(completedSteps) = Len(Steps)

\* ------------------------------------------------------------------- clock
\* One second elapses: a scheduled interval calls back; with none scheduled
\* only the time passes.
Tick ==
  /\ \/ /\ intervals = {}
        /\ UNCHANGED <<runner, clock, alerts, list, inflight, forms, elapsed>>
     \/ /\ intervals # {}
        /\ IntervalCallback
        /\ elapsed' = Min(elapsed + 1, MaxSeconds + 1)
  /\ ticksSince' = Min(ticksSince + 1, MaxSeconds + 1)
  /\ UNCHANGED <<last, toggled, outcome>>

\* ------------------------------------------------------ the checklist list
\* The request of fetchChecklists is sent.
fetchChecklists == inflight' = inflight \cup {ChecklistsFetch}

\* The screen gains focus (the tab bar is behind the modal once a checklist
\* is open).
FocusChecklists ==
  /\ selectedChecklist = Null
  /\ ChecklistsFetch \notin inflight
  /\ fetchChecklists
  /\ UNCHANGED <<runner, clock, alerts, list, history, forms>>

\* onRefresh, by pulling the list down.
PullToRefresh ==
  /\ ~loading
  /\ selectedChecklist = Null
  /\ refreshing' = TRUE
  /\ fetchChecklists
  /\ UNCHANGED <<runner, clock, alerts, checklists, loading, history, forms>>

\* The request of fetchChecklists is answered: try and finally.
ChecklistsFetched ==
  /\ ChecklistsFetch \in inflight
  /\ inflight' = inflight \ {ChecklistsFetch}
  /\ checklists' = Catalog
  /\ loading' = FALSE
  /\ refreshing' = FALSE
  /\ outcome' = "ok"
  /\ UNCHANGED <<runner, clock, alerts, calls, forms>>

\* The request of fetchChecklists fails: catch and finally.
ChecklistsFetchFailed ==
  /\ ChecklistsFetch \in inflight
  /\ inflight' = inflight \ {ChecklistsFetch}
  /\ UNCHANGED checklists
  /\ loading' = FALSE
  /\ refreshing' = FALSE
  /\ outcome' = "failed"
  /\ UNCHANGED <<runner, clock, alerts, calls, forms>>

\* ------------------------------------------------------- the screen (Spec)
PressChecklistCard(c) ==
  /\ ~loading
  /\ c \in DOMAIN checklists
  /\ selectedChecklist = Null
  /\ openChecklist(c)
  /\ Observe("open", Null, 0)
  /\ toggled' = NeverToggled
  /\ elapsed' = 0

PressClose ==
  /\ selectedChecklist # Null
  /\ closeChecklist
  /\ Observe("close", Null, 0)
  /\ toggled' = NeverToggled
  /\ elapsed' = 0

\* Variant: the step header passes the step's position, not its order.
PressStepHeaderByIndex(i) ==
  /\ i \in DOMAIN Steps
  /\ toggleStep(i)
  /\ Observe("toggle", i, 0)
  /\ toggled' = [toggled EXCEPT ![i] = 1 - @]
  /\ UNCHANGED elapsed

\* Variant: a step can be toggled only once the steps before it are complete.
PressStepHeaderInOrder(i) ==
  /\ i \in DOMAIN Steps
  /\ \A j \in 1..(i - 1) : Steps[j].order \in completedSteps
  /\ toggleStep(Steps[i].order)
  /\ Observe("toggle", Steps[i].order, 0)
  /\ toggled' = [toggled EXCEPT ![Steps[i].order] = 1 - @]
  /\ UNCHANGED elapsed

PressStepHeader(i) ==
  /\ i \in DOMAIN Steps
  /\ toggleStep(Steps[i].order)
  /\ Observe("toggle", Steps[i].order, 0)
  /\ toggled' = [toggled EXCEPT ![Steps[i].order] = 1 - @]
  /\ UNCHANGED elapsed

PressStartTimer(i) ==
  /\ i \in DOMAIN Steps
  /\ HasTimerSection(Steps[i])
  /\ activeTimer # Steps[i].order
  /\ MayStart
  /\ startTimer(Steps[i].order, Steps[i].timer_seconds)
  /\ Observe("start", Steps[i].order, Steps[i].timer_seconds)
  /\ UNCHANGED toggled
  /\ elapsed' = 0

PressPlay(i) ==
  /\ i \in DOMAIN Steps
  /\ HasTimerSection(Steps[i])
  /\ activeTimer = Steps[i].order
  /\ ~timerRunning
  /\ MayStart
  /\ startTimer(Steps[i].order, ResumeSeconds(Steps[i]))
  /\ Observe("start", Steps[i].order, ResumeSeconds(Steps[i]))
  /\ UNCHANGED toggled
  /\ elapsed' = IF timerValue # 0 THEN elapsed ELSE 0

PressPause(i) ==
  /\ i \in DOMAIN Steps
  /\ HasTimerSection(Steps[i])
  /\ activeTimer = Steps[i].order
  /\ timerRunning
  /\ stopTimer
  /\ Observe("stop", Null, 0)
  /\ UNCHANGED <<toggled, elapsed>>

\* ------------------------------------------- direct calls (RunnerSpec)
\* `elapsed` is not kept under RunnerSpec: a direct call has no declared
\* duration to count from.
CallOpenChecklist(c) ==
  /\ openChecklist(c)
  /\ Observe("open", Null, 0)
  /\ toggled' = NeverToggled
  /\ elapsed' = 0

CallCloseChecklist ==
  /\ closeChecklist
  /\ Observe("close", Null, 0)
  /\ toggled' = NeverToggled
  /\ elapsed' = 0

CallToggleStep(o) ==
  /\ toggleStep(o)
  /\ Observe("toggle", o, 0)
  /\ toggled' = [toggled EXCEPT ![o] = 1 - @]
  /\ elapsed' = 0

CallStartTimer(o, s) ==
  /\ MayStart
  /\ startTimer(o, s)
  /\ Observe("start", o, s)
  /\ UNCHANGED toggled
  /\ elapsed' = 0

CallStopTimer ==
  /\ stopTimer
  /\ Observe("stop", Null, 0)
  /\ UNCHANGED toggled
  /\ elapsed' = 0

\* The screen is unmounted, which runs the cleanup of the timer effect, and
\* mounted again before the next call, which starts from the initial state.
Remount ==
  /\ intervals' = ClearInterval(intervals, effectInterval)
  /\ effectInterval' = Null
  /\ selectedChecklist' = Null
  /\ completedSteps' = {}
  /\ activeTimer' = Null
  /\ timerValue' = 0
  /\ timerRunning' = FALSE
  /\ checklists' = << >>
  /\ loading' = TRUE
  /\ refreshing' = FALSE
  /\ UNCHANGED <<alerts, inflight, forms>>
  /\ Observe("unmount", Null, 0)
  /\ toggled' = NeverToggled
  /\ elapsed' = 0

\* ---------------------------------------------------------- specifications
\* The state of a screen after its first render.
Mounted ==
  /\ selectedChecklist = Null
  /\ completedSteps = {}
  /\ activeTimer = Null
  /\ timerValue = 0
  /\ timerRunning = FALSE
  /\ intervals = {}
  /\ effectInterval = Null
  /\ alerts = << >>
  /\ checklists = << >>
  /\ loading = TRUE
  /\ refreshing = FALSE
  /\ inflight = {}
  /\ elapsed = 0
  /\ outcome = "none"
  /\ last = [op |-> "mount", order |-> Null, seconds |-> 0,
             before |-> [owner |-> Null, value |-> 0, running |-> FALSE]]
  /\ ticksSince = 0
  /\ toggled = NeverToggled
  /\ selectedCategory = "all"
  /\ items = {}
  /\ modalVisible = FALSE
  /\ editing = {}
  /\ form = [f \in Fields(screen) |-> ""]
  /\ openedBy = "none"

Init == screen = "checklists" /\ Mounted

Next ==
  \/ FocusChecklists
  \/ PullToRefresh
  \/ ChecklistsFetched
  \/ ChecklistsFetchFailed
  \/ \E c \in DOMAIN Catalog : PressChecklistCard(c)
  \/ PressClose
  \/ \E i \in DOMAIN Steps : PressStepHeader(i)
  \/ \E i \in DOMAIN Steps : PressStartTimer(i)
  \/ \E i \in DOMAIN Steps : PressPlay(i)
  \/ \E i \in DOMAIN Steps : PressPause(i)
  \/ Tick

Spec == Init /\ [][Next]_vars

NextRunner ==
  \/ \E c \in DOMAIN Catalog : CallOpenChecklist(c)
  \/ CallCloseChecklist
  \/ \E o \in Orders : CallToggleStep(o)
  \/ \E o \in Orders, s \in Seconds : CallStartTimer(o, s)
  \/ CallStopTimer
  \/ Remount
  \/ Tick

RunnerSpec == Init /\ [][NextRunner]_vars

\* A timer is counting down.
Counting == timerRunning /\ timerValue >= 1

\* Direct calls in which nothing but toggleStep is called while a timer is
\* counting down, with the interval's callbacks delivered fairly.
NextFair ==
  \/ /\ ~Counting
     /\ \/ \E c \in DOMAIN Catalog : CallOpenChecklist(c)
        \/ CallCloseChecklist
        \/ \E o \in Orders, s \in Seconds : CallStartTimer(o, s)
        \/ CallStopTimer
        \/ Remount
  \/ \E o \in Orders : CallToggleStep(o)
  \/ Tick

FairSpec == Init /\ [][NextFair]_vars /\ WF_vars(Tick)

\* ------------------------------------------------------- the CRUD screens
\* The params of fetchInventory as the current render closes over them.
Params == IF screen = "inventory" THEN selectedCategory ELSE ""

\* axios.get of fetchInventory (with the category), fetchRepairs and
\* fetchData, which awaits its two GETs together.
ListFetch(category) == Request(screen, "fetch", "GET", "", category)

\* axios.put / axios.post of saveItem and saveRepair.
SaveRequest ==
  IF editing = {}
  THEN Request(screen, "save", "POST", "", Params)
  ELSE Request(screen, "save", "PUT", CHOOSE id \in editing : TRUE, Params)

\* axios.patch of adjustQuantity, axios.put of completeRepair, axios.post of
\* seedDatabase.
OtherWrite(id) ==
  CASE screen = "inventory" -> Request(screen, "adjust", "PATCH", id, Params)
    [] screen = "logbook" -> Request(screen, "complete", "PUT", id, "")
    [] screen = "dashboard" -> Request(screen, "seed", "POST", "", "")

\* axios.delete of deleteItem and deleteRepair.
DeleteRequest(id) == Request(screen, "delete", "DELETE", id, Params)

\* res.data of a list fetch: the backend's records of the category asked for.
Response(r) ==
  IF r.screen = "inventory" /\ r.category # "all"
  THEN {id \in Records : CategoryOf(id) = r.category}
  ELSE Records

\* resetForm, the required fields.
EmptyForm == [f \in Fields(screen) |-> ""]

\* The list is rendered and the full-screen modal does not cover it.
ListControls == screen \in CrudScreens /\ ~loading /\ ~modalVisible

\* No further request is sent with MaxInflight of them in flight.
MaySend == Cardinality(inflight) < MaxInflight

\* No further save is pressed once its alert would exceed MaxAlerts.
MaySave ==
  Len(alerts) + Cardinality({r \in inflight : r.op = "save"}) < MaxAlerts

\* useFocusEffect: the screen gains focus and its fetch is sent.
FetchList ==
  /\ screen \in CrudScreens
  /\ ~modalVisible
  /\ MaySend
  /\ inflight' = inflight \cup {ListFetch(Params)}
  /\ UNCHANGED <<runner, clock, alerts, list, history, forms>>

\* onRefresh.
RefreshList ==
  /\ ListControls
  /\ MaySend
  /\ refreshing' = TRUE
  /\ inflight' = inflight \cup {ListFetch(Params)}
  /\ UNCHANGED <<runner, clock, alerts, checklists, loading, history, forms>>

\* A category chip is pressed: setSelectedCategory, and the focus effect,
\* which depends on selectedCategory, fetches with the new category.
SelectCategory(category) ==
  /\ screen = "inventory"
  /\ ListControls
  /\ category # selectedCategory
  /\ MaySend
  /\ selectedCategory' = category
  /\ inflight' = inflight \cup {ListFetch(category)}
  /\ UNCHANGED <<runner, clock, alerts, list, history>>
  /\ UNCHANGED <<screen, items, modalVisible, editing, form, openedBy>>

\* Variant: the new form is shown without resetForm.
OpenNewNoReset ==
  /\ screen \in ListScreens
  /\ ListControls
  /\ modalVisible' = TRUE
  /\ openedBy' = "new"
  /\ UNCHANGED <<runner, clock, alerts, list, inflight, history>>
  /\ UNCHANGED <<screen, selectedCategory, items, editing, form>>

\* openNewItem, openNewRepair.
OpenNew ==
  /\ screen \in ListScreens
  /\ ListControls
  /\ form' = EmptyForm
  /\ editing' = {}
  /\ modalVisible' = TRUE
  /\ openedBy' = "new"
  /\ UNCHANGED <<runner, clock, alerts, list, inflight, history>>
  /\ UNCHANGED <<screen, selectedCategory, items>>

\* openEditItem, openEditRepair, on a record on display.
OpenEdit(id) ==
  /\ screen \in ListScreens
  /\ ListControls
  /\ id \in items
  /\ editing' = {id}
  /\ form' = [f \in Fields(screen) |-> "Glue"]
  /\ modalVisible' = TRUE
  /\ openedBy' = id
  /\ UNCHANGED <<runner, clock, alerts, list, inflight, history>>
  /\ UNCHANGED <<screen, selectedCategory, items>>

\* The close button of the modal.
CloseModal ==
  /\ modalVisible
  /\ modalVisible' = FALSE
  /\ UNCHANGED <<runner, clock, alerts, list, inflight, history>>
  /\ UNCHANGED <<screen, selectedCategory, items, editing, form, openedBy>>

\* onChangeText of a required field.
TypeField(f, text) ==
  /\ modalVisible
  /\ f \in Fields(screen)
  /\ form' = [form EXCEPT ![f] = text]
  /\ UNCHANGED <<runner, clock, alerts, list, inflight, history>>
  /\ UNCHANGED <<screen, selectedCategory, items, modalVisible, editing, openedBy>>

\* saveItem, saveRepair up to the request: a blank required field is
\* reported and nothing is sent.
Save ==
  /\ modalVisible
  /\ MaySave
  /\ MaySend
  /\ IF \E f \in Fields(screen) : Trim(form[f]) = ""
     THEN /\ alerts' = Append(alerts, RequiredAlert(screen))
          /\ UNCHANGED inflight
     ELSE /\ inflight' = inflight \cup {SaveRequest}
          /\ UNCHANGED alerts
  /\ UNCHANGED <<runner, clock, list, history, forms>>

\* adjustQuantity, completeRepair on a record on display, and seedDatabase,
\* whose button is disabled while it runs, up to the request.
Write(id) ==
  /\ ListControls
  /\ IF screen \in ListScreens THEN id \in items ELSE id = ""
  /\ screen = "dashboard" => OtherWrite(id) \notin inflight
  /\ MaySend
  /\ inflight' = inflight \cup {OtherWrite(id)}
  /\ UNCHANGED <<runner, clock, alerts, list, history, forms>>

\* deleteItem, deleteRepair up to the request; confirmDelete is the answer
\* to the confirmation dialog.
Delete(id, confirmDelete) ==
  /\ screen \in ListScreens
  /\ ListControls
  /\ id \in items
  /\ MaySend
  /\ inflight' = IF confirmDelete
                 THEN inflight \cup {DeleteRequest(id)}
                 ELSE inflight
  /\ UNCHANGED <<runner, clock, alerts, list, history, forms>>

\* The request r is answered: the rest of the try block, and the finally
\* block of a fetch.  A save closes and resets the form, and every write
\* fetches the list with the params of the render that sent it.
RequestSucceeds(r) ==
  /\ r \in inflight
  /\ r.screen \in CrudScreens
  /\ outcome' = "ok"
  /\ CASE r.op = "fetch" ->
            /\ inflight' = inflight \ {r}
            /\ items' = Response(r)
            /\ loading' = FALSE
            /\ refreshing' = FALSE
            /\ UNCHANGED <<modalVisible, form, editing>>
       [] r.op = "save" ->
            /\ inflight' = (inflight \ {r}) \cup {ListFetch(r.category)}
            /\ modalVisible' = FALSE
            /\ form' = EmptyForm
            /\ editing' = {}
            /\ UNCHANGED <<items, loading, refreshing>>
       [] OTHER ->
            /\ inflight' = (inflight \ {r}) \cup {ListFetch(r.category)}
            /\ UNCHANGED <<items, loading, refreshing, modalVisible, form, editing>>
  /\ UNCHANGED <<runner, clock, alerts, checklists, calls>>
  /\ UNCHANGED <<screen, selectedCategory, openedBy>>

\* Variant: the failed fetch skips its finally block.
RequestFailsNoFinally(r) ==
  /\ r \in inflight
  /\ r.screen \in CrudScreens
  /\ inflight' = inflight \ {r}
  /\ outcome' = "failed"
  /\ alerts' = IF r.op = "save"
               THEN Append(alerts, SaveFailedAlert(r.screen))
               ELSE alerts
  /\ UNCHANGED <<runner, clock, list, calls, forms>>

\* The request r fails: the catch block, and the finally block of a fetch.
\* Every catch logs to the console; that of the two saves also shows an alert.
RequestFails(r) ==
  /\ r \in inflight
  /\ r.screen \in CrudScreens
  /\ inflight' = inflight \ {r}
  /\ outcome' = "failed"
  /\ alerts' = IF r.op = "save"
               THEN Append(alerts, SaveFailedAlert(r.screen))
               ELSE alerts
  /\ loading' = IF r.op = "fetch" THEN FALSE ELSE loading
  /\ refreshing' = IF r.op = "fetch" THEN FALSE ELSE refreshing
  /\ UNCHANGED <<runner, clock, checklists, calls, forms>>

InitCrud == screen \in CrudScreens /\ Mounted

\* Every request of the three screens and its answer, sent from the list and
\* from the form of a record.
NextCrud ==
  \/ FetchList
  \/ \E id \in Records : OpenEdit(id)
  \/ CloseModal
  \/ Save
  \/ \E id \in Records \cup {""} : Write(id)
  \/ \E id \in Records, confirmDelete \in BOOLEAN : Delete(id, confirmDelete)
  \/ \E r \in inflight : RequestSucceeds(r)
  \/ \E r \in inflight : RequestFails(r)

CrudSpec == InitCrud /\ [][NextCrud]_vars

\* The form of the inventory and logbook screens: opened, filled in, saved
\* and closed, with the answers to its requests.
NextForm ==
  \/ FetchList
  \/ OpenNew
  \/ \E id \in Records : OpenEdit(id)
  \/ CloseModal
  \/ \E f \in Fields(screen), text \in FieldValues : TypeField(f, text)
  \/ Save
  \/ \E r \in inflight : RequestSucceeds(r)
  \/ \E r \in inflight : RequestFails(r)

InitForm == screen \in ListScreens /\ Mounted

FormSpec == InitForm /\ [][NextForm]_vars

\* The list fetches of the three screens with every request answered:
\* focus, refreshes, category changes and the arrival of the responses.
NextRace ==
  \/ FetchList
  \/ RefreshList
  \/ \E category \in Categories : SelectCategory(category)
  \/ \E r \in inflight : RequestSucceeds(r)

RaceSpec == InitCrud /\ [][NextRace]_vars

\* The list fetches of all four screens, every request answered in the end
\* (axios settles each promise).
NextFetch ==
  \/ /\ screen = "checklists"
     /\ \/ FocusChecklists
        \/ PullToRefresh
        \/ ChecklistsFetched
        \/ ChecklistsFetchFailed
  \/ FetchList
  \/ RefreshList
  \/ \E category \in Categories : SelectCategory(category)
  \/ /\ screen \in CrudScreens
     /\ \/ \E r \in inflight : RequestSucceeds(r)
        \/ \E r \in inflight : RequestFails(r)

\* The list fetches the four screens can send.
ListFetches ==
  {ChecklistsFetch}
    \cup {Request("inventory", "fetch", "GET", "", c) : c \in Categories}
    \cup {Request(s, "fetch", "GET", "", "") : s \in {"logbook", "dashboard"}}

\* The request r is answered, one way or the other.
Answered(r) ==
  IF r = ChecklistsFetch
  THEN ChecklistsFetched \/ ChecklistsFetchFailed
  ELSE RequestSucceeds(r) \/ RequestFails(r)

InitFetch == screen \in Screens /\ Mounted

FetchSpec ==
  /\ InitFetch
  /\ [][NextFetch]_vars
  /\ \A r \in ListFetches : WF_vars(Answered(r))

\* A callback of an interval that was cleared, or was never due: delivered
\* late.  The histories follow the scheduled callbacks only.
LateTick ==
  /\ intervals = {}
  /\ TickCompletes(timerValue) => Len(alerts) < MaxAlerts
  /\ IntervalCallback
  /\ UNCHANGED history

\* Direct calls, startTimer with seconds > 0, and callbacks at any time.
NextLate ==
  \/ \E c \in DOMAIN Catalog : CallOpenChecklist(c)
  \/ CallCloseChecklist
  \/ \E o \in Orders : CallToggleStep(o)
  \/ \E o \in Orders, s \in Seconds \ {0} : CallStartTimer(o, s)
  \/ CallStopTimer
  \/ Remount
  \/ Tick
  \/ LateTick

LateSpec == Init /\ [][NextLate]_vars

TypeOK ==
  /\ selectedChecklist \in DOMAIN Catalog \cup {Null}
  /\ completedSteps \subseteq Orders
  /\ activeTimer \in Orders \cup {Null}
  /\ timerValue \in Seconds
  /\ timerRunning \in BOOLEAN
  /\ intervals \subseteq Handles
  /\ effectInterval \in Handles \cup {Null}
  /\ Len(alerts) <= MaxAlerts
  /\ ticksSince \in 0..(MaxSeconds + 1)
  /\ checklists \in {<< >>, Catalog}
  /\ loading \in BOOLEAN
  /\ refreshing \in BOOLEAN
  /\ elapsed \in 0..(MaxSeconds + 1)
  /\ outcome \in {"none", "ok", "failed"}
  /\ screen \in Screens
  /\ selectedCategory \in Categories
  /\ items \subseteq Records
  /\ modalVisible \in BOOLEAN
  /\ editing \in {{}} \cup {{id} : id \in Records}
  /\ form \in [Fields(screen) -> FieldValues]
  /\ openedBy \in {"none", "new"} \cup Records

\* ------------------------------------------------------------------ claims
\* A step in which one second elapsed, and steps that ran a given handler.
TickStep == ticksSince' # 0
HandlerStep(op) == ticksSince' = 0 /\ last'.op = op
Max0(n) == IF n < 0 THEN 0 ELSE n

\* C1: after startTimer(step, n) with n >= 1 and nothing but ticks since, k < n
\* ticks leave timerValue = n - k and timerRunning = TRUE, and the n-th tick
\* leaves timerValue = 0 and timerRunning = FALSE.
C1_Countdown ==
  (last.op = "start" /\ last.seconds >= 1) =>
    /\ ticksSince < last.seconds =>
         timerValue = last.seconds - ticksSince /\ timerRunning
    /\ ticksSince = last.seconds => timerValue = 0 /\ ~timerRunning

C1_Witness ==
  /\ last.op = "start"
  /\ last.seconds = MaxSeconds
  /\ ticksSince = MaxSeconds
  /\ timerValue = 0
  /\ ~timerRunning

\* C2: the tick that takes a running timer from 1 to 0 shows exactly one
\* completion alert, and no other step (no other tick, no handler) shows one.
C2_AlertOnCompletionOnly ==
  [][ LET completing == TickStep /\ timerRunning /\ timerValue = 1
      IN /\ completing =>
              timerValue' = 0 /\ alerts' = Append(alerts, TimerCompleteAlert)
         /\ ~completing => alerts' = alerts ]_vars

C2_Witness ==
  /\ last.op = "start"
  /\ last.seconds = 2
  /\ ticksSince = 2
  /\ Len(alerts) = 1

\* C3: stopTimer sets timerRunning = FALSE and leaves activeTimer and
\* timerValue unchanged, and a tick while the timer is not running changes
\* neither timerValue nor timerRunning and shows no alert.
C3_StopPauses ==
  [][ /\ HandlerStep("stop") =>
           /\ ~timerRunning'
           /\ activeTimer' = activeTimer
           /\ timerValue' = timerValue
           /\ alerts' = alerts
      /\ (TickStep /\ ~timerRunning) =>
           /\ timerValue' = timerValue
           /\ timerRunning' = timerRunning
           /\ alerts' = alerts ]_vars

C3_Witness ==
  /\ last.op = "stop"
  /\ last.before.running
  /\ last.before.value = 1
  /\ ticksSince >= 2
  /\ timerValue = 1
  /\ ~timerRunning

\* C4: after startTimer(B, s) called while another step A owned the timer,
\* B owns it, the value is s and the timer runs; each tick since counts B's
\* value down by one, and at most one interval is scheduled.
C4_StartReplaces ==
  (last.op = "start" /\ last.before.owner # Null /\ last.before.owner # last.order) =>
    /\ activeTimer = last.order
    /\ ticksSince = 0 => timerValue = last.seconds /\ timerRunning
    /\ timerValue = Max0(last.seconds - ticksSince)
    /\ Cardinality(intervals) <= 1

C4_Witness ==
  /\ last.op = "start"
  /\ last.before.owner # Null
  /\ last.before.owner # last.order
  /\ last.before.running
  /\ last.before.value = 1
  /\ last.seconds = 2
  /\ ticksSince = 1
  /\ timerValue = 1

\* C5: a step order of the open checklist is in completedSteps iff toggleStep
\* was called on it an odd number of times since the checklist was opened.
C5_ToggleParity ==
  selectedChecklist # Null =>
    \A o \in StepOrders : (o \in completedSteps) <=> (toggled[o] = 1)

C5_Witness ==
  /\ selectedChecklist # Null
  /\ last.op = "toggle"
  /\ last.order \in StepOrders
  /\ toggled[last.order] = 0
  /\ last.order \notin completedSteps
  /\ \E o \in StepOrders : o \in completedSteps

\* C6: with a checklist open, the banner shows iff completedSteps is the set of
\* the checklist's step orders; it shows for a checklist without steps.
C6_BannerIffAllComplete ==
  selectedChecklist # Null =>
    /\ CompletionBanner <=> (completedSteps = StepOrders)
    /\ Len(Steps) = 0 => CompletionBanner

C6_Witness ==
  /\ selectedChecklist # Null
  /\ Len(Steps) >= 2
  /\ CompletionBanner
  /\ last.op = "toggle"

\* C7: toggleStep called with an order that no step of the open checklist has
\* changes none of completedSteps, activeTimer, timerValue and timerRunning.
C7_InvalidToggleIsNoOp ==
  [][ (HandlerStep("toggle") /\ selectedChecklist # Null
        /\ last'.order \notin StepOrders) =>
      UNCHANGED <<completedSteps, activeTimer, timerValue, timerRunning>> ]_vars

\* C8: driven through the screen, completedSteps holds only step orders of the
\* open checklist, so its size never exceeds the number of steps.
C8_CompletedAreSteps ==
  /\ completedSteps \subseteq StepOrders
  /\ Cardinality(completedSteps) <= Len(Steps)

C8_Witness ==
  /\ selectedChecklist = 3
  /\ last.op = "toggle"
  /\ completedSteps = {3}
  /\ toggled[2] = 0

\* C9: after openChecklist, whatever the state before it, completedSteps is
\* empty, no step owns the timer, timerValue = 0, timerRunning = FALSE and no
\* interval is scheduled, and ticks leave it so.
C9_OpenResets ==
  last.op = "open" =>
    /\ selectedChecklist # Null
    /\ completedSteps = {}
    /\ activeTimer = Null
    /\ timerValue = 0
    /\ ~timerRunning
    /\ intervals = {}

C9_Witness ==
  /\ last.op = "open"
  /\ last.before.running
  /\ last.before.value = 2
  /\ last.before.owner = 2
  /\ ticksSince >= 1
  /\ timerValue = 0

\* C10: after closeChecklist no interval is scheduled, and a tick changes
\* neither timerValue nor timerRunning and shows no alert, also when the
\* timer was running with one second left at the close.
C10_CloseCancels ==
  [][ /\ HandlerStep("close") => intervals' = {}
      /\ (TickStep /\ last.op = "close") =>
           /\ timerValue' = timerValue
           /\ timerRunning' = timerRunning
           /\ alerts' = alerts ]_vars

C10_Witness ==
  /\ last.op = "close"
  /\ last.before.running
  /\ last.before.value = 1
  /\ ticksSince >= 1
  /\ timerValue = 0
  /\ ~timerRunning
  /\ alerts = << >>

\* C11: at most one interval is scheduled at any time and none while
\* timerRunning is FALSE: stopTimer, the completing tick, closeChecklist and
\* the unmount leave none, and the interval scheduled after a tick replaces
\* the one that called back.
C11_OneInterval ==
  [][ /\ Cardinality(intervals) <= 1
      /\ Cardinality(intervals') <= 1
      /\ ~timerRunning => intervals = {}
      /\ ~timerRunning' => intervals' = {}
      /\ (timerRunning /\ ~timerRunning') => intervals' = {}
      /\ ( \/ HandlerStep("stop")
           \/ HandlerStep("close")
           \/ HandlerStep("unmount")
           \/ (TickStep /\ timerRunning /\ timerValue = 1) ) => intervals' = {}
      /\ (TickStep /\ intervals # {} /\ intervals' # {}) =>
           intervals' \cap intervals = {} ]_vars

C11_Witness ==
  /\ last.op = "start"
  /\ ticksSince = 1
  /\ timerRunning
  /\ intervals = {2}

C11_WitnessUnmount ==
  /\ last.op = "unmount"
  /\ last.before.running
  /\ last.before.value >= 1
  /\ intervals = {}

\* C12: the play button of a step paused with r >= 1 seconds left calls
\* startTimer with r, so the interval callbacks since the step's timer was
\* started from its declared duration and the seconds left always add up to
\* that duration, over any number of pauses, and are equal to it at completion.
C12_ResumeContinues ==
  /\ ( /\ last.op = "start"
       /\ last.before.owner = last.order
       /\ ~last.before.running
       /\ last.before.value >= 1 ) => last.seconds = last.before.value
  /\ activeTimer # Null =>
       \E i \in DOMAIN Steps :
         /\ Steps[i].order = activeTimer
         /\ elapsed + timerValue = Steps[i].timer_seconds

C12_Witness ==
  /\ last.op = "start"
  /\ last.before.owner = last.order
  /\ ~last.before.running
  /\ last.before.value = 2
  /\ last.seconds = 2
  /\ timerValue = 0
  /\ ~timerRunning
  /\ elapsed = MaxSeconds
  /\ Len(alerts) = 1

\* C13: startTimer, stopTimer and every tick, the completing one included,
\* leave completedSteps unchanged.
C13_TimerLeavesCompleted ==
  [][ (HandlerStep("start") \/ HandlerStep("stop") \/ TickStep) =>
        completedSteps' = completedSteps ]_vars

C13_Witness ==
  /\ ticksSince = 1
  /\ last.op = "start"
  /\ last.seconds = 1
  /\ timerValue = 0
  /\ Len(alerts) >= 1
  /\ activeTimer \notin completedSteps
  /\ completedSteps # {}

\* C14: toggleStep leaves activeTimer, timerValue and timerRunning unchanged
\* and the scheduled interval in place, also for the step that owns the
\* running timer, and the next tick counts down as if no toggle had happened.
C14_ToggleLeavesTimer ==
  [][ /\ HandlerStep("toggle") =>
           UNCHANGED <<activeTimer, timerValue, timerRunning,
                       intervals, effectInterval, alerts>>
      /\ (TickStep /\ last.op = "toggle" /\ timerRunning /\ timerValue >= 1) =>
           timerValue' = timerValue - 1 ]_vars

C14_Witness ==
  /\ last.op = "toggle"
  /\ last.order = activeTimer
  /\ last.before.running
  /\ last.before.value = 2
  /\ ticksSince = 1
  /\ timerValue = 1
  /\ timerRunning
  /\ intervals # {}

\* C15: in every reachable state, timerRunning = TRUE implies that a step
\* owns the timer (activeTimer is not null).
C15_RunningHasOwner == timerRunning => activeTimer # Null

C15_Witness ==
  /\ timerRunning
  /\ activeTimer # Null
  /\ last.op = "start"
  /\ last.before.owner = Null
  /\ Len(alerts) = 1

\* C16: with startTimer called with seconds > 0 only, timerValue is a
\* non-negative integer in every reachable state, interval callbacks that
\* arrive late or after the timer stopped included.
C16_NonNegative == timerValue \in Nat

C16_Witness ==
  /\ intervals = {}
  /\ ~timerRunning
  /\ timerValue = 0
  /\ activeTimer # Null
  /\ last.op = "stop"
  /\ last.before.value = 1
  /\ Len(alerts) = 1

\* The step order an alert carries: that of its `order` field, if it has one.
AlertPayload(alert) == IF "order" \in DOMAIN alert THEN alert.order ELSE Null

\* C17: the alert shown by the completing tick carries the order of the step
\* whose timer finished, the value of activeTimer at that tick.
C17_AlertCarriesStep ==
  [][ (TickStep /\ timerRunning /\ timerValue = 1) =>
        /\ Len(alerts') = Len(alerts) + 1
        /\ AlertPayload(alerts'[Len(alerts')]) = activeTimer ]_vars

\* C18: driven through the screen, the step that owns the timer is a step of
\* the open checklist that declares a duration, and startTimer is called
\* with seconds > 0 only: the declared duration or the seconds left.
C18_StartsAreValid ==
  /\ activeTimer # Null =>
       \E i \in DOMAIN Steps :
         /\ Steps[i].order = activeTimer
         /\ Steps[i].timer_seconds # Null
         /\ Steps[i].timer_seconds > 0
         /\ last.op = "start" =>
              /\ last.order = activeTimer
              /\ \/ last.seconds = Steps[i].timer_seconds
                 \/ last.seconds = last.before.value
  /\ last.op = "start" => last.seconds > 0

C18_Witness ==
  /\ last.op = "start"
  /\ selectedChecklist = 3
  /\ activeTimer = 3
  /\ last.before.owner = 2
  /\ last.before.value = 0
  /\ last.seconds = 2
  /\ Len(alerts) = 1

\* The steps of the runner, as the screen drives it.
RunnerStep ==
  \/ \E c \in DOMAIN Catalog : PressChecklistCard(c)
  \/ PressClose
  \/ \E i \in DOMAIN Steps : PressStepHeader(i)
  \/ \E i \in DOMAIN Steps : PressStartTimer(i)
  \/ \E i \in DOMAIN Steps : PressPlay(i)
  \/ \E i \in DOMAIN Steps : PressPause(i)
  \/ Tick

\* C19: openChecklist, toggleStep, startTimer, stopTimer, a tick and
\* closeChecklist leave the fetched list unchanged and send no request other
\* than a GET, and all but open and close leave the open checklist, and with
\* it its definition, the one it was.
C19_RunnerWritesNothing ==
  [][ RunnerStep =>
        /\ checklists' = checklists
        /\ \A r \in inflight' \ inflight : r.method = "GET"
        /\ (selectedChecklist # Null /\ selectedChecklist' # Null) =>
             /\ selectedChecklist' = selectedChecklist
             /\ Steps' = Steps
        /\ selectedChecklist' # Null =>
             /\ selectedChecklist' \in DOMAIN checklists
             /\ Steps' = checklists[selectedChecklist'] ]_vars

C19_Witness ==
  /\ last.op = "toggle"
  /\ ticksSince = 0
  /\ completedSteps # {}
  /\ checklists = Catalog
  /\ refreshing
  /\ ChecklistsFetch \in inflight

\* C20: in the inventory, logbook and dashboard screens, every request that
\* fails (list fetch, save, quantity adjustment, completion, deletion) is
\* reported to the user by an alert.
C20_FailuresReported ==
  [][ \A r \in inflight :
        RequestFails(r) =>
          /\ Len(alerts') = Len(alerts) + 1
          /\ alerts'[Len(alerts')].title = "Error" ]_vars

\* C21: with the ticks delivered fairly and no stopTimer, startTimer,
\* openChecklist or closeChecklist while the timer counts down, a timer
\* running with n >= 1 seconds left eventually is not running with 0 left.
C21_RunningTimerEnds == Counting ~> (~timerRunning /\ timerValue = 0)

C21_Witness ==
  /\ last.op = "toggle"
  /\ last.before.running
  /\ last.before.value = 2
  /\ ticksSince = 2
  /\ ~timerRunning
  /\ timerValue = 0
  /\ Len(alerts) = 1

\* C22: no order is enforced between the steps.  With a checklist open,
\* whatever completedSteps holds, every step's header can be pressed and
\* flips that step alone, so every subset of the step orders is reachable,
\* and the timer of every step with a timer section can be started.
C22_NoStepOrder ==
  selectedChecklist # Null =>
    \A i \in DOMAIN Steps :
      /\ ENABLED ( /\ PressStepHeader(i)
                   /\ completedSteps' =
                        IF Steps[i].order \in completedSteps
                        THEN completedSteps \ {Steps[i].order}
                        ELSE completedSteps \cup {Steps[i].order} )
      /\ ( /\ HasTimerSection(Steps[i])
           /\ MayStart
           /\ ~(activeTimer = Steps[i].order /\ timerRunning) ) =>
           ENABLED (PressStartTimer(i) \/ PressPlay(i))

C22_Witness ==
  /\ selectedChecklist = 2
  /\ completedSteps = {3}
  /\ activeTimer = 2
  /\ timerRunning
  /\ last.op = "start"

\* C23: a step without a declared duration and a step with a declared
\* duration of 0 are shown different timer controls, and a step whose timer
\* ran down to 0 is shown a different one from a step whose timer was never
\* started.
C23_ZeroIsNotAbsent ==
  selectedChecklist # Null =>
    \A i \in DOMAIN Steps, j \in DOMAIN Steps :
      /\ (Steps[i].timer_seconds = Null /\ Steps[j].timer_seconds = 0) =>
           TimerControl(Steps[i]) # TimerControl(Steps[j])
      /\ ( /\ HasTimerSection(Steps[i])
           /\ HasTimerSection(Steps[j])
           /\ activeTimer = Steps[i].order
           /\ timerValue = 0
           /\ i # j ) =>
           TimerControl(Steps[i]) # TimerControl(Steps[j])

\* C24: the safety note of a step of the open checklist is displayed iff the
\* step is flagged safety-critical and carries a note (a string that is
\* not empty); for a step that is not flagged none is displayed, whatever
\* its safety_note holds.
C24_SafetyNoteShown ==
  selectedChecklist # Null =>
    \A i \in DOMAIN Steps :
      /\ SafetyWarning(Steps[i]) <=>
           ( /\ Steps[i].is_safety
             /\ \E text \in Steps[i].safety_note : text # "" )
      /\ ~Steps[i].is_safety => ~SafetyWarning(Steps[i])

C24_Witness ==
  /\ selectedChecklist = 2
  /\ last.op = "open"
  /\ SafetyWarning(Steps[1])
  /\ ~Steps[2].is_safety
  /\ Steps[2].safety_note # Undefined
  /\ ~SafetyWarning(Steps[2])
  /\ ~SafetyWarning(Steps[3])

\* C25: with startTimer called with seconds >= 1 only, a timer that is
\* running has at least one second left and an interval scheduled: it is
\* never running at 0.
C25_RunningHasSecondsLeft ==
  timerRunning => (timerValue >= 1 /\ intervals # {})

C25_Witness ==
  /\ timerRunning
  /\ timerValue = 1
  /\ intervals # {}
  /\ last.op = "start"
  /\ last.seconds = MaxSeconds
  /\ ticksSince = MaxSeconds - 1

\* C26: the completing tick leaves the finished step as the owner with 0
\* seconds left and the timer not running, and ticks leave it so; the play
\* button of that step then starts a countdown from the step's declared
\* duration, at least one second, and its completion shows a further alert
\* with the same step as the owner.
C26_RestartAfterCompletion ==
  [][ /\ (Tick /\ timerRunning /\ timerValue = 1) =>
           /\ activeTimer' = activeTimer
           /\ timerValue' = 0
           /\ ~timerRunning'
           /\ Len(alerts') = Len(alerts) + 1
      /\ (Tick /\ activeTimer # Null /\ timerValue = 0 /\ ~timerRunning) =>
           UNCHANGED <<activeTimer, timerValue, timerRunning, alerts>>
      /\ \A i \in DOMAIN Steps :
           (PressPlay(i) /\ timerValue = 0) =>
             /\ activeTimer' = activeTimer
             /\ timerValue' = Steps[i].timer_seconds
             /\ timerValue' >= 1
             /\ timerRunning'
             /\ intervals' # {} ]_vars

C26_Witness ==
  /\ last.op = "start"
  /\ last.before.owner = last.order
  /\ last.before.value = 0
  /\ ~last.before.running
  /\ ticksSince = last.seconds
  /\ activeTimer = last.order
  /\ timerValue = 0
  /\ ~timerRunning
  /\ Len(alerts) = 2

\* The list fetches in flight.
Fetching == {r \in inflight : r.op = "fetch"}

\* C27: on the inventory screen, once every list request in flight has been
\* answered, the inventory on display is the response to the request for
\* the selected category: a late response for a category selected before
\* never overwrites the current one.
C27_CurrentCategoryShown ==
  (screen = "inventory" /\ ~loading /\ Fetching = {}) =>
    items = Response(ListFetch(selectedCategory))

\* C28: on every screen each list fetch is answered in the end and its
\* answer, success or failure, leaves loading and refreshing false; a failed
\* fetch leaves the data on display as it was.
C28_FetchSettles ==
  /\ \A r \in ListFetches :
       (r \in inflight) ~> (r \notin inflight /\ ~loading /\ ~refreshing)
  /\ [][ /\ \A r \in Fetching :
             (RequestSucceeds(r) \/ RequestFails(r)) =>
               (~loading' /\ ~refreshing')
        /\ \A r \in Fetching : (RequestFails(r) => items' = items)
        /\ (ChecklistsFetched \/ ChecklistsFetchFailed) =>
             (~loading' /\ ~refreshing')
        /\ (ChecklistsFetchFailed => checklists' = checklists) ]_vars

C28_Witness ==
  /\ screen = "inventory"
  /\ outcome = "failed"
  /\ Fetching = {}
  /\ items = Records
  /\ selectedCategory = "adhesive"
  /\ ~loading
  /\ ~refreshing

\* A field left empty or filled with white space only.
Blank == {"", "  "}

\* C29: saveItem with a blank name, and saveRepair with a blank device
\* type, device model or issue description, sends no request, shows an
\* error, and leaves the modal open with the form fields and the edited
\* record as they were.
C29_BlankSaveRejected ==
  [][ (Save /\ \E f \in Fields(screen) : form[f] \in Blank) =>
        /\ inflight' = inflight
        /\ Len(alerts') = Len(alerts) + 1
        /\ alerts'[Len(alerts')].title = "Error"
        /\ modalVisible'
        /\ form' = form
        /\ editing' = editing ]_vars

C29_Witness ==
  /\ screen = "logbook"
  /\ modalVisible
  /\ editing = {"id2"}
  /\ form["deviceType"] = "Glue"
  /\ form["deviceModel"] = "Glue"
  /\ form["issueDescription"] = "  "
  /\ inflight = {}
  /\ Len(alerts) = 1
  /\ alerts[1] = RequiredAlert(screen)

\* The save request of a form opened by the new action, or by the edit
\* action on the record opened.
SaveOf(opened) ==
  IF opened = "new"
  THEN Request(screen, "save", "POST", "", Params)
  ELSE Request(screen, "save", "PUT", opened, Params)

\* C30: while the inventory or repair form is visible, a save that passes
\* the required fields sends a PUT for record X if and only if the form was
\* last opened by the edit action on X, and a POST if and only if it was
\* last opened by the new action; so a new form saved after an edit form
\* was dismissed never updates the record edited before.
C30_SaveTargetsOpenedRecord ==
  [][ (Save /\ \A f \in Fields(screen) : form[f] \notin Blank) =>
        /\ openedBy \in Records \cup {"new"}
        /\ inflight' = inflight \cup {SaveOf(openedBy)} ]_vars

C30_Witness ==
  /\ screen = "inventory"
  /\ modalVisible
  /\ openedBy = "new"
  /\ inflight = { Request(screen, "save", "PUT", "id1", "all"),
                  Request(screen, "save", "POST", "", "all") }
====
